---- MODULE Spec2Model ----
(***************************************************************************)
(* Honyaku Assist: the Google usage tracker (utils.get_google_usage), the  *)
(* provider adapters (call_deepl_api, call_google_api_v3), the direction   *)
(* resolver (translation_direction) and the request handler                *)
(* (views.homepage_view).                                                  *)
(*                                                                         *)
(* Time is counted in calendar months: instant t is month (t % 12) + 1 of  *)
(* year t \div 12, which is all that timezone.now().month and              *)
(* timezone.now().year let the program see of the clock.                   *)
(***************************************************************************)
EXTENDS Integers, Sequences, FiniteSets, TLC

VARIABLES google_engine, now, history, initial_engine, last, pc, local

vars == <<google_engine, now, history, initial_engine, last, pc, local>>

-----------------------------------------------------------------------------
(* Bounds of the model *)

\* longest source text submitted
MaxLen == 2
\* number of get_google_usage calls in one behaviour
MaxCalls == 3
\* number of month boundaries the clock may cross
MaxTicks == 3
\* number of concurrent requests in the race specification
NumProcs == 2

TextLens == 0..MaxLen

\* the behaviours start in November 2023
StartNow == 2023 * 12 + 10
MaxNow == StartNow + MaxTicks
Instants == StartNow..MaxNow

-----------------------------------------------------------------------------
(* The clock: timezone.now().month and timezone.now().year *)

MonthOf(t) == (t % 12) + 1
YearOf(t) == t \div 12
DateOf(t) == <<MonthOf(t), YearOf(t)>>

\* the stored (month, year) of the last reset
ResetDate(engine) == <<engine.month_usage_last_reset, engine.year_usage_last_reset>>

-----------------------------------------------------------------------------
(* utils.get_google_usage.  length is len(source_text); t1 and t2 are the   *)
(* instants of the two timezone.now() calls of line 85, the first giving   *)
(* the month and the second the year.  The result is the saved row, the    *)
(* returned usage and the current_date tuple the call used.                *)

\* the reset branch keeps the previous usage
get_google_usage_keeps_usage(engine, length, t1, t2) ==
    LET current_date == <<MonthOf(t1), YearOf(t2)>>
        last_reset_date == ResetDate(engine)
        saved == IF last_reset_date # current_date
                 THEN [current_usage |-> engine.current_usage + length,
                       month_usage_last_reset |-> current_date[1],
                       year_usage_last_reset |-> current_date[2]]
                 ELSE [engine EXCEPT !.current_usage = @ + length]
    IN [engine |-> saved, usage |-> saved.current_usage, current_date |-> current_date]

\* the accumulating branch overwrites the usage
get_google_usage_overwrites(engine, length, t1, t2) ==
    LET current_date == <<MonthOf(t1), YearOf(t2)>>
        last_reset_date == ResetDate(engine)
        saved == IF last_reset_date # current_date
                 THEN [current_usage |-> length,
                       month_usage_last_reset |-> current_date[1],
                       year_usage_last_reset |-> current_date[2]]
                 ELSE [engine EXCEPT !.current_usage = length]
    IN [engine |-> saved, usage |-> saved.current_usage, current_date |-> current_date]

get_google_usage(engine, length, t1, t2) ==
    LET current_date == <<MonthOf(t1), YearOf(t2)>>
        last_reset_date == ResetDate(engine)
        saved == IF last_reset_date # current_date
                 THEN [current_usage |-> length,
                       month_usage_last_reset |-> current_date[1],
                       year_usage_last_reset |-> current_date[2]]
                 ELSE [engine EXCEPT !.current_usage = @ + length]
    IN [engine |-> saved, usage |-> saved.current_usage, current_date |-> current_date]

-----------------------------------------------------------------------------
(* utils.call_google_api_v3.  outcome is what the provider did: "ok" (a     *)
(* translation came back), "empty" (the response carries no translated     *)
(* text) or "raise" (authentication or translate_text raised).             *)

GoogleOutcomes == {"ok", "empty", "raise"}

GoogleResult(outcome) ==
    CASE outcome = "ok" -> "translated_text"
      [] outcome = "empty" -> "(Error: Translation not included in response from Google)"
      [] OTHER -> "(Error: " \o "google failure" \o ")"

IsGooglePlaceholder(result) ==
    result \in {"(Error: Translation not included in response from Google)",
                "(Error: google failure)"}

\* the usage is updated only when the translation succeeded
call_google_api_v3_counts_successes(engine, length, outcome, t1, t2) ==
    LET g == get_google_usage(engine, length, t1, t2)
    IN IF outcome = "ok"
       THEN [result |-> GoogleResult(outcome), usage |-> g.usage,
             engine |-> g.engine, current_date |-> g.current_date]
       ELSE [result |-> GoogleResult(outcome), usage |-> engine.current_usage,
             engine |-> engine, current_date |-> g.current_date]

call_google_api_v3(engine, length, outcome, t1, t2) ==
    LET g == get_google_usage(engine, length, t1, t2)
    IN [result |-> GoogleResult(outcome), usage |-> g.usage,
        engine |-> g.engine, current_date |-> g.current_date]

-----------------------------------------------------------------------------
(* The sequential specification: calls of get_google_usage, direct or      *)
(* through call_google_api_v3, one after the other under a clock that      *)
(* never goes back.                                                        *)

Idle == [p \in 1..NumProcs |-> "idle"]
NoLocal == [p \in 1..NumProcs |-> [length |-> 0]]

\* the Engine row of the "Google" provider: usage 0, last reset in the
\* month the behaviour starts in or in the month before
InitEngines ==
    {[current_usage |-> 0,
      month_usage_last_reset |-> MonthOf(t),
      year_usage_last_reset |-> YearOf(t)] : t \in {StartNow - 1, StartNow}}

Init ==
    /\ google_engine \in InitEngines
    /\ initial_engine = google_engine
    /\ now = StartNow
    /\ history = <<>>
    /\ last = [op |-> "none"]
    /\ pc = Idle
    /\ local = NoLocal

\* what one call leaves behind for the properties to look at
Observation(op, length, outcome, t1, t2, r) ==
    [op |-> op, length |-> length, outcome |-> outcome, t1 |-> t1, t2 |-> t2,
     before |-> google_engine, result |-> r.result, usage |-> r.usage,
     current_date |-> r.current_date]

HistoryEntry(length, t1, t2, r) ==
    [length |-> length, t1 |-> t1, t2 |-> t2,
     reset |-> ResetDate(r.engine) # ResetDate(google_engine)]

GetGoogleUsage ==
    \E length \in TextLens, t1 \in Instants, t2 \in Instants :
        /\ Len(history) < MaxCalls
        /\ now <= t1
        /\ t2 \in {t1, t1 + 1}
        /\ LET g == get_google_usage(google_engine, length, t1, t2)
               r == [result |-> "", usage |-> g.usage, engine |-> g.engine,
                     current_date |-> g.current_date]
           IN /\ google_engine' = r.engine
              /\ last' = Observation("get_google_usage", length, "ok", t1, t2, r)
              /\ history' = Append(history, HistoryEntry(length, t1, t2, r))
        /\ now' = t2
        /\ UNCHANGED <<initial_engine, pc, local>>

CallGoogleApiV3 ==
    \E length \in TextLens, outcome \in GoogleOutcomes,
       t1 \in Instants, t2 \in Instants :
        /\ Len(history) < MaxCalls
        /\ now <= t1
        /\ t2 \in {t1, t1 + 1}
        /\ LET r == call_google_api_v3(google_engine, length, outcome, t1, t2)
           IN /\ google_engine' = r.engine
              /\ last' = Observation("call_google_api_v3", length, outcome, t1, t2, r)
              /\ history' = Append(history, HistoryEntry(length, t1, t2, r))
        /\ now' = t2
        /\ UNCHANGED <<initial_engine, pc, local>>

Next == GetGoogleUsage \/ CallGoogleApiV3

Spec == Init /\ [][Next]_vars

-----------------------------------------------------------------------------
(* The direction resolver: the two copies of translation_direction *)

\* the labels a request may carry: the two of the form and two others
Directions == {"Ja>En", "En>Ja", "ja>en", ""}

\* the copy of utils.py answers ("ja", "en") for every unrecognised label
utils_translation_direction_swapped(direction) ==
    IF direction = "Ja>En" THEN <<"ja", "en-us">>
    ELSE IF direction = "En>Ja" THEN <<"en", "ja">>
    ELSE <<"ja", "en">>

utils_translation_direction(direction) ==
    IF direction = "Ja>En" THEN <<"ja", "en-us">> ELSE <<"en", "ja">>

views_translation_direction(direction) ==
    IF direction = "Ja>En" THEN <<"ja", "en-us">> ELSE <<"en", "ja">>

-----------------------------------------------------------------------------
(* Python values: a str, an int or a deepl TextResult object.  views.py     *)
(* line 36 takes str() of the DeepL result before len(): translate_text    *)
(* returns an object, not a str.                                           *)

PyStr(s) == [type |-> "str", value |-> s]
PyInt(n) == [type |-> "int", value |-> n]
TextResult(s) == [type |-> "TextResult", value |-> s]

\* bool(v): an empty str and 0 are false, an object is true
Truthy(v) ==
    CASE v.type = "str" -> v.value # ""
      [] v.type = "int" -> v.value # 0
      [] OTHER -> TRUE

\* a + b: concatenation of two str, TypeError when a is the object
PyAdd(a, b) ==
    IF a.type = "str" /\ b.type = "str"
    THEN [raised |-> "none", value |-> PyStr(a.value \o b.value)]
    ELSE [raised |-> "TypeError", value |-> a]

\* how a DeepL call goes: every step succeeds, or one of the three steps
\* (authentication, translation, usage query) raises a DeepLException or
\* another exception and the steps after it are not reached
Failures ==
    {[step |-> "none", exc |-> "none"]}
    \cup [step : {"auth", "translate", "usage"}, exc : {"DeepLException", "Exception"}]

\* str(e) of the exception a step raised
Message(step) ==
    CASE step = "auth" -> "auth failed"
      [] step = "translate" -> "translate failed"
      [] OTHER -> "usage failed"

-----------------------------------------------------------------------------
(* views.call_deepl_api: one try block around the three DeepL calls and    *)
(* two handlers that append the error to result when result is true.       *)

views_call_deepl_api(failure, count) ==
    LET step == failure.step
        exc == failure.exc
        \* result and usage when the exception is raised
        result == IF step = "usage" THEN TextResult("translation") ELSE PyStr("")
        usage == PyStr("")
        prefix == IF exc = "DeepLException"
                  THEN (IF Truthy(result) THEN "\n(DeepL Error: " ELSE "(DeepL Error: ")
                  ELSE "(Error: "
        first == PyAdd(result, PyStr(prefix))
        handled == IF Truthy(result)
                   THEN first
                   ELSE [raised |-> "none",
                         value |-> PyStr(prefix \o Message(step) \o ")")]
    IN IF step = "none"
       THEN [raised |-> "none", result |-> TextResult("translation"),
             usage |-> PyInt(count)]
       ELSE IF handled.raised # "none"
       THEN [raised |-> handled.raised, result |-> result, usage |-> usage]
       ELSE [raised |-> "none",
             result |-> IF Truthy(result)
                        THEN PyStr(handled.value.value \o Message(step) \o ")")
                        ELSE handled.value,
             usage |-> IF ~Truthy(usage) THEN PyStr("(Error)") ELSE usage]

-----------------------------------------------------------------------------
(* utils.call_deepl_api: one try block per DeepL call, each catching       *)
(* DeepLException only.                                                    *)

utils_call_deepl_api(failure, count) ==
    LET step == failure.step
        exc == failure.exc
    IN CASE step = "none" ->
              [raised |-> "none", result |-> TextResult("translation"),
               usage |-> PyInt(count)]
         [] exc # "DeepLException" ->
              [raised |-> exc,
               result |-> IF step = "usage" THEN TextResult("translation") ELSE PyStr(""),
               usage |-> PyStr("")]
         [] step = "auth" ->
              [raised |-> "none",
               result |-> PyStr("(DeepL authentication error: " \o Message(step) \o ")"),
               usage |-> PyStr("(Unknown)")]
         [] step = "translate" ->
              [raised |-> "none",
               result |-> PyStr("(DeepL translation error: " \o Message(step) \o ")"),
               usage |-> PyStr("(Unknown)")]
         [] OTHER ->
              [raised |-> "none", result |-> TextResult("translation"),
               usage |-> PyStr("(DeepL usage error: " \o Message(step) \o ")")]

-----------------------------------------------------------------------------
(* views.call_google_api_v3: as the copy of utils.py, without the usage    *)

views_call_google_api_v3(outcome) ==
    [raised |-> "none", result |-> PyStr(GoogleResult(outcome))]

-----------------------------------------------------------------------------
(* views.homepage_view.  calls lists the backends called, in order, with   *)
(* the language pair each was given; an exception that leaves the view is  *)
(* answered by the framework with status 500.                              *)

Methods == {"GET", "POST"}

homepage_view(method, valid, direction, failure, count, outcome) ==
    LET langs == views_translation_direction(direction)
        d == views_call_deepl_api(failure, count)
        g == views_call_google_api_v3(outcome)
    IN IF method = "POST" /\ valid
       THEN IF d.raised # "none"
            THEN [status |-> 500, template |-> "none",
                  calls |-> <<<<"deepl", langs>>>>,
                  deepl_result |-> d.result, deepl_usage |-> d.usage,
                  google_result |-> PyStr("")]
            ELSE [status |-> 200, template |-> "output.html",
                  calls |-> <<<<"deepl", langs>>, <<"google", langs>>>>,
                  deepl_result |-> d.result, deepl_usage |-> d.usage,
                  google_result |-> g.result]
       ELSE [status |-> 200, template |-> "input.html", calls |-> <<>>,
             deepl_result |-> PyStr(""), deepl_usage |-> PyStr(""),
             google_result |-> PyStr("")]

-----------------------------------------------------------------------------
(* The request specification: the resolver, the adapters and the view,     *)
(* each called with every input of the model.  None of them touches the    *)
(* usage record.                                                           *)

TranslationDirection ==
    \E direction \in Directions :
        /\ last' = [op |-> "translation_direction", direction |-> direction,
                    utils |-> utils_translation_direction(direction),
                    views |-> views_translation_direction(direction)]
        /\ UNCHANGED <<google_engine, now, history, initial_engine, pc, local>>

DeeplObservation(op, failure, count, r) ==
    [op |-> op, failure |-> failure, count |-> count,
     raised |-> r.raised, result |-> r.result, usage |-> r.usage]

ViewsCallDeeplApi ==
    \E failure \in Failures, count \in TextLens :
        /\ last' = DeeplObservation("views.call_deepl_api", failure, count,
                       views_call_deepl_api(failure, count))
        /\ UNCHANGED <<google_engine, now, history, initial_engine, pc, local>>

UtilsCallDeeplApi ==
    \E failure \in Failures, count \in TextLens :
        /\ last' = DeeplObservation("utils.call_deepl_api", failure, count,
                       utils_call_deepl_api(failure, count))
        /\ UNCHANGED <<google_engine, now, history, initial_engine, pc, local>>

ViewsCallGoogleApiV3 ==
    \E outcome \in GoogleOutcomes :
        /\ LET r == views_call_google_api_v3(outcome)
           IN last' = [op |-> "views.call_google_api_v3", outcome |-> outcome,
                       raised |-> r.raised, result |-> r.result]
        /\ UNCHANGED <<google_engine, now, history, initial_engine, pc, local>>

HomepageView ==
    \E method \in Methods, valid \in BOOLEAN, direction \in Directions,
       failure \in Failures, count \in TextLens, outcome \in GoogleOutcomes :
        /\ LET r == homepage_view(method, valid, direction, failure, count,
                                  outcome)
           IN last' = [op |-> "homepage_view", method |-> method, valid |-> valid,
                       direction |-> direction, failure |-> failure,
                       count |-> count, outcome |-> outcome, status |-> r.status,
                       template |-> r.template, calls |-> r.calls,
                       deepl_result |-> r.deepl_result,
                       deepl_usage |-> r.deepl_usage,
                       google_result |-> r.google_result]
        /\ UNCHANGED <<google_engine, now, history, initial_engine, pc, local>>

NextView ==
    \/ TranslationDirection
    \/ ViewsCallDeeplApi
    \/ UtilsCallDeeplApi
    \/ ViewsCallGoogleApiV3
    \/ HomepageView

\* the usage record plays no part here: one row, last reset this month
InitView ==
    /\ Init
    /\ ResetDate(google_engine) = DateOf(StartNow)

SpecView == InitView /\ [][NextView]_vars

-----------------------------------------------------------------------------
(* The race specification: NumProcs requests run get_google_usage at the   *)
(* same time, each once.  A request fetches the row (line 80), reads the   *)
(* clock twice (line 85), then compares, updates its own copy of the row   *)
(* and saves it (lines 88 to 103); save() writes every field of the copy.  *)
(* Nothing orders the steps of two requests, and the clock may advance     *)
(* between any two steps.                                                  *)

Procs == 1..NumProcs

\* the row save() leaves in the table: computed from the copy the request
\* fetched and not from the row as stored at the time of the save
\* (stored is that row); here the update is applied to the stored row
SavedRow_on_stored(fetched, stored, length, t1, t2) ==
    get_google_usage(stored, length, t1, t2).engine

SavedRow(fetched, stored, length, t1, t2) ==
    get_google_usage(fetched, length, t1, t2).engine

\* the row after some earlier calls: any usage, last reset this month or
\* the month before
InitRace ==
    /\ google_engine \in
         [current_usage : TextLens,
          month_usage_last_reset : {MonthOf(StartNow - 1), MonthOf(StartNow)},
          year_usage_last_reset : {YearOf(StartNow)}]
    /\ initial_engine = google_engine
    /\ now = StartNow
    /\ history = <<>>
    /\ last = [op |-> "none"]
    /\ pc = Idle
    /\ local = NoLocal

Fetch(p) ==
    \E length \in TextLens :
        /\ pc[p] = "idle"
        /\ local' = [local EXCEPT ![p] =
                        [length |-> length, engine |-> google_engine,
                         saves_before |-> Len(history)]]
        /\ pc' = [pc EXCEPT ![p] = "month"]
        /\ UNCHANGED <<google_engine, now, history, initial_engine, last>>

ReadMonth(p) ==
    /\ pc[p] = "month"
    /\ local' = [local EXCEPT ![p] =
                    [length |-> @.length, engine |-> @.engine,
                     saves_before |-> @.saves_before, t1 |-> now]]
    /\ pc' = [pc EXCEPT ![p] = "year"]
    /\ UNCHANGED <<google_engine, now, history, initial_engine, last>>

ReadYear(p) ==
    /\ pc[p] = "year"
    /\ local' = [local EXCEPT ![p] =
                    [length |-> @.length, engine |-> @.engine,
                     saves_before |-> @.saves_before, t1 |-> @.t1, t2 |-> now]]
    /\ pc' = [pc EXCEPT ![p] = "save"]
    /\ UNCHANGED <<google_engine, now, history, initial_engine, last>>

Save(p) ==
    /\ pc[p] = "save"
    /\ LET l == local[p]
           saved == SavedRow(l.engine, google_engine, l.length, l.t1, l.t2)
       IN /\ google_engine' = saved
          /\ history' = Append(history,
                 [length |-> l.length, t1 |-> l.t1, t2 |-> l.t2,
                  reset |-> ResetDate(saved) # ResetDate(google_engine),
                  proc |-> p, saves_before |-> l.saves_before])
          /\ last' = [op |-> "get_google_usage", length |-> l.length,
                      outcome |-> "ok", t1 |-> l.t1, t2 |-> l.t2,
                      before |-> google_engine, result |-> "",
                      usage |-> saved.current_usage,
                      current_date |-> <<MonthOf(l.t1), YearOf(l.t2)>>]
    /\ pc' = [pc EXCEPT ![p] = "done"]
    /\ UNCHANGED <<now, initial_engine, local>>

Tick ==
    /\ now < MaxNow
    /\ \E p \in Procs : pc[p] # "done"
    /\ now' = now + 1
    /\ UNCHANGED <<google_engine, history, initial_engine, last, pc, local>>

NextRace ==
    \/ \E p \in Procs : Fetch(p)
    \/ \E p \in Procs : ReadMonth(p)
    \/ \E p \in Procs : ReadYear(p)
    \/ \E p \in Procs : Save(p)
    \/ Tick

SpecRace == InitRace /\ [][NextRace]_vars

-----------------------------------------------------------------------------
(* Properties of the resolver, the adapters and the view *)

\* C5: translation_direction answers ("ja", "en-us") for "Ja>En" and
\* ("en", "ja") for every other label, and its two copies agree.
C5_DirectionMapping ==
    last.op = "translation_direction"
    => /\ last.utils = (IF last.direction = "Ja>En"
                        THEN <<"ja", "en-us">> ELSE <<"en", "ja">>)
       /\ last.views = last.utils

C5_Witness ==
    /\ last.op = "translation_direction"
    /\ last.direction \notin {"Ja>En", "En>Ja"}
    /\ last.utils = <<"en", "ja">>
    /\ last.views = <<"en", "ja">>

DeeplOps == {"views.call_deepl_api", "utils.call_deepl_api"}

\* the strings the adapters put in place of a translation or of a usage
IsPlaceholder(v) ==
    /\ v.type = "str"
    /\ \/ \E step \in {"auth", "translate", "usage"} :
              v.value \in {"(DeepL Error: " \o Message(step) \o ")",
                           "(Error: " \o Message(step) \o ")",
                           "translation\n(DeepL Error: " \o Message(step) \o ")",
                           "translation(Error: " \o Message(step) \o ")",
                           "(DeepL authentication error: " \o Message(step) \o ")",
                           "(DeepL translation error: " \o Message(step) \o ")",
                           "(DeepL usage error: " \o Message(step) \o ")"}
       \/ v.value \in {"(Error)", "(Unknown)"}
       \/ IsGooglePlaceholder(v.value)

\* C6: no failure of a provider, at any step, leaves call_deepl_api or
\* call_google_api_v3 as an exception: the result (the usage, for a failed
\* usage query) is a placeholder string, and the view renders the results.
C6_FailuresBecomePlaceholders ==
    /\ last.op \in DeeplOps
       => /\ last.raised = "none"
          /\ (last.failure.step \in {"auth", "translate"}
                 => IsPlaceholder(last.result))
          /\ (last.failure.step = "usage"
                 => IsPlaceholder(last.result) \/ IsPlaceholder(last.usage))
    /\ last.op = "views.call_google_api_v3"
       => /\ last.raised = "none"
          /\ (last.outcome # "ok" => IsPlaceholder(last.result))
    /\ last.op = "call_google_api_v3"
       => (last.outcome # "ok" => IsGooglePlaceholder(last.result))
    /\ (last.op = "homepage_view" /\ last.method = "POST" /\ last.valid)
       => /\ last.status = 200
          /\ last.template = "output.html"
          /\ (last.failure.step \in {"auth", "translate"}
                 => IsPlaceholder(last.deepl_result))
          /\ (last.outcome # "ok" => IsPlaceholder(last.google_result))

\* C8: a GET renders the input form and calls no backend; a valid POST
\* calls DeepL then Google, once each, with the pair of
\* translation_direction, and renders the output page; an invalid POST
\* calls no backend and renders the input form again; GET and valid POST
\* answer 200.
C8_HomepageView ==
    last.op = "homepage_view"
    => IF last.method = "POST" /\ last.valid
       THEN /\ last.status = 200
            /\ last.template = "output.html"
            /\ last.calls
                 = <<<<"deepl", views_translation_direction(last.direction)>>,
                     <<"google", views_translation_direction(last.direction)>>>>
       ELSE /\ last.calls = <<>>
            /\ last.template = "input.html"
            /\ (last.method = "GET" => last.status = 200)

-----------------------------------------------------------------------------
(* Properties of the usage tracker *)

UsageOps == {"get_google_usage", "call_google_api_v3"}

RECURSIVE SumLengths(_, _)
\* the sum of the lengths of the calls from index i of h on
SumLengths(h, i) ==
    IF i > Len(h) \/ i < 1 THEN 0 ELSE h[i].length + SumLengths(h, i + 1)

\* the index of the call that performed the last recorded reset; 1 when no
\* call has reset the record, whose usage then started at 0
LastResetIndex(h) ==
    LET resets == {i \in 1..Len(h) : h[i].reset}
    IN IF resets = {} THEN 1 ELSE CHOOSE i \in resets : \A j \in resets : j <= i

\* a call falls in the calendar month d when both its clock reads do
FallsIn(e, d) == DateOf(e.t1) = d /\ DateOf(e.t2) = d

\* C1: a call whose stored (month, year) differs from the current calendar
\* (month, year) sets the usage to len(source_text), stores the current
\* month and year and returns the new usage.  The current (month, year) is
\* taken to be that of either clock read of the call.
C1_ResetOnNewMonth ==
    (last.op \in UsageOps
       /\ ResetDate(last.before) \notin {DateOf(last.t1), DateOf(last.t2)})
    => /\ google_engine.current_usage = last.length
       /\ last.usage = last.length
       /\ ResetDate(google_engine) \in {DateOf(last.t1), DateOf(last.t2)}

\* C2: a call that falls in the stored month and year adds len(source_text)
\* to the usage, returns the new total, never decreases the usage and
\* leaves the stored month and year alone; over a sequence of such calls
\* the usage is the sum of all the lengths.
C2_SameMonthAccumulates ==
    /\ (last.op \in UsageOps /\ FallsIn(last, ResetDate(last.before)))
       => /\ google_engine.current_usage = last.before.current_usage + last.length
          /\ last.usage = google_engine.current_usage
          /\ google_engine.current_usage >= last.before.current_usage
          /\ ResetDate(google_engine) = ResetDate(last.before)
    /\ (\A i \in 1..Len(history) : FallsIn(history[i], ResetDate(initial_engine)))
       => /\ google_engine.current_usage = SumLengths(history, 1)
          /\ ResetDate(google_engine) = ResetDate(initial_engine)

C2_Witness ==
    /\ Len(history) >= 2
    /\ \A i \in 1..Len(history) : FallsIn(history[i], ResetDate(initial_engine))
    /\ last.op \in UsageOps
    /\ last.length > 0
    /\ last.before.current_usage > 0
    /\ google_engine.current_usage = last.before.current_usage + last.length

\* C3: the stored usage is never negative and is the sum of the lengths of
\* the texts submitted since, and including, the call that performed the
\* last recorded reset.
C3_UsageIsSumSinceReset ==
    /\ google_engine.current_usage >= 0
    /\ google_engine.current_usage = SumLengths(history, LastResetIndex(history))

C3_Witness ==
    /\ Len(history) = 3
    /\ history[1].length > 0
    /\ history[2].reset /\ history[2].length > 0
    /\ ~history[3].reset /\ history[3].length > 0
    /\ google_engine.current_usage = history[2].length + history[3].length

\* the calendar month a call occurs in: that of its first clock read, or
\* that of its second
OccursIn(e, atEnd) == IF atEnd THEN DateOf(e.t2) ELSE DateOf(e.t1)

\* a call resets the record exactly when it is the first call of its month,
\* the month the record was last reset in before the first call counting as
\* already reset
ResetOncePerMonth(h, atEnd) ==
    \A i \in 1..Len(h) :
        h[i].reset <=>
            ~ \/ OccursIn(h[i], atEnd) = ResetDate(initial_engine)
              \/ \E j \in 1..(i - 1) : OccursIn(h[j], atEnd) = OccursIn(h[i], atEnd)

\* C4: the record is reset exactly once per calendar month with a call, on
\* the first call of that month, and no later call of the month resets it
\* again, whichever clock read of a call decides the month it occurs in.
C4_ResetOncePerMonth ==
    ResetOncePerMonth(history, FALSE) \/ ResetOncePerMonth(history, TRUE)

\* C9: the (month, year) pair a call compares and stores is the calendar
\* month and year of one single instant during the call.
C9_SingleInstant ==
    last.op \in UsageOps
    => /\ last.current_date \in {DateOf(last.t1), DateOf(last.t2)}
       /\ ResetDate(google_engine) \in
              {ResetDate(last.before), DateOf(last.t1), DateOf(last.t2)}

\* C10: call_google_api_v3 updates the usage record once, by
\* len(source_text), whether or not the translation succeeded; a failed
\* translation gives an error placeholder and still counts.
C10_UsageCountsSubmitted ==
    last.op = "call_google_api_v3"
    => /\ (last.outcome # "ok" => IsGooglePlaceholder(last.result))
       /\ (last.outcome = "ok" => ~IsGooglePlaceholder(last.result))
       /\ last.usage = google_engine.current_usage
       /\ IF ResetDate(last.before) = last.current_date
          THEN /\ google_engine.current_usage
                      = last.before.current_usage + last.length
               /\ ResetDate(google_engine) = ResetDate(last.before)
          ELSE /\ google_engine.current_usage = last.length
               /\ ResetDate(google_engine) = last.current_date

C10_Witness ==
    /\ last.op = "call_google_api_v3"
    /\ last.outcome = "raise"
    /\ IsGooglePlaceholder(last.result)
    /\ last.length > 0
    /\ last.before.current_usage > 0
    /\ google_engine.current_usage = last.before.current_usage + last.length

-----------------------------------------------------------------------------
(* Properties of concurrent requests *)

AllDone == \A p \in Procs : pc[p] = "done"

\* every request fetched the row before any request saved
AllReadBeforeAnySave ==
    \A i \in 1..Len(history) : history[i].saves_before = 0

\* C7: nothing locks the read-modify-write of the usage record: when every
\* request has fetched the row before any has saved, the row left behind is
\* the one the last save alone would have produced, so that in one and the
\* same month the counts of all the other requests are lost; the usage
\* never exceeds what the calls give one after the other.
C7_LostUpdate ==
    (AllDone /\ AllReadBeforeAnySave)
    => LET e == history[Len(history)]
           took_reset == ResetDate(initial_engine) # <<MonthOf(e.t1), YearOf(e.t2)>>
       IN /\ google_engine.current_usage
                = (IF took_reset THEN 0 ELSE initial_engine.current_usage) + e.length
          /\ (\A i \in 1..Len(history) :
                  FallsIn(history[i], ResetDate(initial_engine)))
             => /\ google_engine.current_usage
                     <= initial_engine.current_usage + SumLengths(history, 1)
                /\ ResetDate(google_engine) = ResetDate(initial_engine)

\* two requests of the same month, both with text, of which one count is lost
C7_Witness ==
    /\ AllDone
    /\ AllReadBeforeAnySave
    /\ \A i \in 1..Len(history) :
           FallsIn(history[i], ResetDate(initial_engine)) /\ history[i].length > 0
    /\ google_engine.current_usage
           < initial_engine.current_usage + SumLengths(history, 1)

====
